---- MODULE Spec2Model ----
(***************************************************************************)
(* A model of mkcert's entry point (src/main.go): main, mkcert.Run,        *)
(* getCAROOT, install, uninstall and check, together with the library      *)
(* functions whose results decide its control flow (net.ParseIP, the       *)
(* hostname regular expression, filepath.Join).                            *)
(*                                                                         *)
(* Strings are sequences of one-character strings, so that parsing and     *)
(* joining are computed character by character as the code does.           *)
(***************************************************************************)
EXTENDS Integers, Sequences, FiniteSets, TLC

VARIABLES
    \* ---- the machine: survives from one process to the next
    GOOS,               \* runtime.GOOS of the build
    env,                \* the process environment (CAROOT, LocalAppData, HOME, XDG_DATA_HOME)
    legacyParse,        \* TRUE: net.ParseIP of a Go release before 1.17
    dirExists,          \* the CAROOT directory exists on disk
    caFiles,            \* rootCA.pem / rootCA-key.pem: "absent", "valid" or "corrupt"
    trusted,            \* the stored authority is registered in the system trust store
    prevRun,            \* how the previous process ended (history)
    \* ---- one process
    pc,                 \* position in main / Run
    installFlag,        \* *installFlag  (m.installMode)
    uninstallFlag,      \* *uninstallFlag (m.uninstallMode)
    args,               \* flag.Args()
    CAROOT,             \* m.CAROOT
    caCert,             \* m.caCert is set (the authority is loaded)
    ignoreCheckFailure, \* m.ignoreCheckFailure
    sysPool,            \* the process's system cert pool: "unloaded", "has", "hasnot"
    idx,                \* number of identifiers the validation loop has accepted
    issued,             \* the list makeCert received (<<>> before the call)
    events,             \* what this process has done so far, in order
    name                \* the string a fatal "not a valid hostname or IP" names

vars == <<GOOS, env, legacyParse, dirExists, caFiles, trusted, prevRun,
          pc, installFlag, uninstallFlag, args, CAROOT, caCert,
          ignoreCheckFailure, sysPool, idx, issued, events, name>>

\* what no step of a process changes
buildVars == <<GOOS, env, legacyParse, prevRun>>

\* the run configuration
configVars == <<installFlag, uninstallFlag, args>>

(***************************************************************************)
(* Characters                                                              *)
(***************************************************************************)
Digit == {"0", "1", "2", "3", "4", "5", "6", "7", "8", "9"}

LowerHex == {"a", "b", "c", "d", "e", "f"}

UpperHex == {"A", "B", "C", "D", "E", "F"}

Lower == LowerHex \cup {"g", "h", "i", "j", "k", "l", "m", "n", "o", "p", "q",
                        "r", "s", "t", "u", "v", "w", "x", "y", "z"}

Upper == UpperHex \cup {"G", "H", "I", "J", "K", "L", "M", "N", "O", "P", "Q",
                        "R", "S", "T", "U", "V", "W", "X", "Y", "Z"}

DigitVal(c) ==
    CASE c = "0" -> 0 [] c = "1" -> 1 [] c = "2" -> 2 [] c = "3" -> 3
      [] c = "4" -> 4 [] c = "5" -> 5 [] c = "6" -> 6 [] c = "7" -> 7
      [] c = "8" -> 8 [] c = "9" -> 9

HexVal(c) ==
    CASE c \in Digit -> DigitVal(c)
      [] c \in {"a", "A"} -> 10 [] c \in {"b", "B"} -> 11
      [] c \in {"c", "C"} -> 12 [] c \in {"d", "D"} -> 13
      [] c \in {"e", "E"} -> 14 [] c \in {"f", "F"} -> 15

\* s[n:] of Go
Drop(s, n) == SubSeq(s, n + 1, Len(s))

(***************************************************************************)
(* net.ParseIP (Go standard library), as called at main.go:96.             *)
(* Two builds are modelled: before Go 1.17 decimal octets may have leading *)
(* zeros and a hexadecimal group may have more than four digits; later     *)
(* releases reject both.                                                   *)
(***************************************************************************)
RECURSIVE dtoiLoop(_, _, _)
dtoiLoop(s, i, n) ==
    IF i < Len(s) /\ s[i + 1] \in Digit
    THEN LET n2 == n * 10 + DigitVal(s[i + 1])
         IN  IF n2 >= 16777215            \* big = 0xFFFFFF
             THEN [n |-> 16777215, i |-> i, ok |-> FALSE]
             ELSE dtoiLoop(s, i + 1, n2)
    ELSE IF i = 0 THEN [n |-> 0, i |-> 0, ok |-> FALSE]
         ELSE [n |-> n, i |-> i, ok |-> TRUE]

dtoi(s) == dtoiLoop(s, 0, 0)

RECURSIVE xtoiLoop(_, _, _)
xtoiLoop(s, i, n) ==
    IF i < Len(s) /\ s[i + 1] \in Digit \cup LowerHex \cup UpperHex
    THEN LET n2 == n * 16 + HexVal(s[i + 1])
         IN  IF n2 >= 16777215
             THEN [n |-> 0, i |-> i, ok |-> FALSE]
             ELSE xtoiLoop(s, i + 1, n2)
    ELSE IF i = 0 THEN [n |-> 0, i |-> 0, ok |-> FALSE]
         ELSE [n |-> n, i |-> i, ok |-> TRUE]

xtoi(s) == xtoiLoop(s, 0, 0)

\* parseIPv4: four decimal fields 0..255 separated by dots; TRUE iff non-nil
RECURSIVE parseIPv4Loop(_, _, _)
parseIPv4Loop(s, i, legacy) ==
    IF i = 4 THEN Len(s) = 0
    ELSE IF Len(s) = 0 THEN FALSE
    ELSE IF i > 0 /\ s[1] # "." THEN FALSE
    ELSE LET s1 == IF i > 0 THEN Tail(s) ELSE s
             d  == dtoi(s1)
         IN  IF ~d.ok \/ d.n > 255 THEN FALSE
             ELSE IF ~legacy /\ d.i > 1 /\ s1[1] = "0" THEN FALSE
             ELSE parseIPv4Loop(Drop(s1, d.i), i + 1, legacy)

parseIPv4(s, legacy) == parseIPv4Loop(s, 0, legacy)

\* the checks after parseIPv6's loop: whole string used, ellipsis expands
parseIPv6Finish(s, i, ellipsis) ==
    /\ Len(s) = 0
    /\ IF i < 16 THEN ellipsis >= 0 ELSE ellipsis < 0

\* parseIPv6's loop "for i < IPv6len": i counts the bytes filled so far
RECURSIVE parseIPv6Loop(_, _, _, _)
parseIPv6Loop(s, i, ellipsis, legacy) ==
    IF i >= 16 THEN parseIPv6Finish(s, i, ellipsis)
    ELSE LET x == xtoi(s) IN
      IF ~x.ok \/ x.n > 65535 THEN FALSE
      ELSE IF ~legacy /\ x.i > 4 THEN FALSE
      ELSE IF x.i < Len(s) /\ s[x.i + 1] = "."
      THEN \* trailing IPv4
           IF ellipsis < 0 /\ i # 12 THEN FALSE
           ELSE IF i + 4 > 16 THEN FALSE
           ELSE IF ~parseIPv4(s, legacy) THEN FALSE
           ELSE parseIPv6Finish(<<>>, i + 4, ellipsis)
      ELSE LET s1 == Drop(s, x.i)
               i1 == i + 2
           IN  IF Len(s1) = 0 THEN parseIPv6Finish(s1, i1, ellipsis)
               ELSE IF s1[1] # ":" \/ Len(s1) = 1 THEN FALSE
               ELSE LET s2 == Tail(s1) IN
                 IF s2[1] = ":"
                 THEN IF ellipsis >= 0 THEN FALSE
                      ELSE IF Len(s2) = 1 THEN parseIPv6Finish(<<>>, i1, i1)
                      ELSE parseIPv6Loop(Tail(s2), i1, i1, legacy)
                 ELSE parseIPv6Loop(s2, i1, ellipsis, legacy)

parseIPv6(s, legacy) ==
    IF Len(s) >= 2 /\ s[1] = ":" /\ s[2] = ":"
    THEN IF Len(s) = 2 THEN TRUE
         ELSE parseIPv6Loop(Drop(s, 2), 0, 0, legacy)
    ELSE parseIPv6Loop(s, 0, -1, legacy)

\* index (from 1) of the first '.' or ':' of s, 0 when there is none
RECURSIVE firstDotOrColon(_, _)
firstDotOrColon(s, i) ==
    IF i > Len(s) THEN 0
    ELSE IF s[i] \in {".", ":"} THEN i
    ELSE firstDotOrColon(s, i + 1)

\* net.ParseIP(s) != nil
ParseIP(s, legacy) ==
    LET k == firstDotOrColon(s, 1)
    IN  IF k = 0 THEN FALSE
        ELSE IF s[k] = "." THEN parseIPv4(s, legacy)
        ELSE parseIPv6(s, legacy)

(***************************************************************************)
(* hostnameRegexp, main.go:94:                                             *)
(*   (?i)^(\*\.)?[0-9a-z_-]([0-9a-z._-]*[0-9a-z_-])?$                      *)
(***************************************************************************)
\* the two characters outside ASCII that (?i) folds onto a letter of a-z:
\* LATIN SMALL LETTER LONG S (folds to s) and KELVIN SIGN (folds to k); each
\* is one character of a string
FoldedLetters == {"U+017F", "U+212A"}

\* the class [0-9a-z_-] under (?i)
EdgeClass == Digit \cup Lower \cup Upper \cup FoldedLetters \cup {"_", "-"}

\* the class [0-9a-z._-] under (?i)
InnerClass == EdgeClass \cup {"."}

\* (\*\.)? : '*' is in neither class, so the group is taken exactly when the
\* text starts with "*."; what is returned is the text the rest must match
stripWildcard(s) ==
    IF Len(s) >= 2 /\ s[1] = "*" /\ s[2] = "." THEN Drop(s, 2) ELSE s

FirstCharOrDot(c) == c \in InnerClass

\* the first atom [0-9a-z_-]
FirstCharOK(c) == c \in EdgeClass

\* [0-9a-z_-]([0-9a-z._-]*[0-9a-z_-])? anchored at both ends
matchBody(t) ==
    /\ Len(t) >= 1
    /\ FirstCharOK(t[1])
    /\ Len(t) >= 2 =>
          /\ \A k \in 2 .. Len(t) - 1 : t[k] \in InnerClass
          /\ t[Len(t)] \in EdgeClass

hostnameRegexpMatch(s) == matchBody(stripWildcard(s))

validNameHostOnly(s, legacy) == hostnameRegexpMatch(s)

\* the body of the loop at main.go:95-103 for one name: TRUE iff it continues
validName(s, legacy) ==
    IF ParseIP(s, legacy) THEN TRUE
    ELSE IF hostnameRegexpMatch(s) THEN TRUE
    ELSE FALSE

(***************************************************************************)
(* path/filepath.Join and Clean (Go standard library), as called by        *)
(* getCAROOT. Volume names are drive letters ("C:"); UNC paths are not     *)
(* among the values the model draws.                                       *)
(***************************************************************************)
Separator(goos) == IF goos = "windows" THEN "\\" ELSE "/"

\* os.IsPathSeparator
IsPathSeparator(goos, c) == IF goos = "windows" THEN c \in {"\\", "/"} ELSE c = "/"

\* filepath.VolumeName, as a length
volumeNameLen(goos, p) ==
    IF goos = "windows" /\ Len(p) >= 2 /\ p[2] = ":" /\ p[1] \in Lower \cup Upper
    THEN 2 ELSE 0

\* the elements of p between separators (empty ones included)
RECURSIVE splitPath(_, _, _, _)
splitPath(goos, p, i, cur) ==
    IF i > Len(p) THEN <<cur>>
    ELSE IF IsPathSeparator(goos, p[i])
         THEN <<cur>> \o splitPath(goos, p, i + 1, <<>>)
         ELSE splitPath(goos, p, i + 1, Append(cur, p[i]))

\* Clean's pass over the elements: drop "" and ".", let ".." remove its parent
RECURSIVE cleanElems(_, _, _, _)
cleanElems(elems, i, rooted, out) ==
    IF i > Len(elems) THEN out
    ELSE LET e == elems[i] IN
      IF e = <<>> \/ e = <<".">> THEN cleanElems(elems, i + 1, rooted, out)
      ELSE IF e = <<".", ".">>
      THEN IF Len(out) > 0 /\ out[Len(out)] # <<".", ".">>
           THEN cleanElems(elems, i + 1, rooted, SubSeq(out, 1, Len(out) - 1))
           ELSE IF rooted THEN cleanElems(elems, i + 1, rooted, out)
           ELSE cleanElems(elems, i + 1, rooted, Append(out, e))
      ELSE cleanElems(elems, i + 1, rooted, Append(out, e))

\* strings.Join(elems, sep)
RECURSIVE joinWith(_, _)
joinWith(elems, sep) ==
    IF Len(elems) = 0 THEN <<>>
    ELSE IF Len(elems) = 1 THEN elems[1]
    ELSE elems[1] \o <<sep>> \o joinWith(Tail(elems), sep)

\* filepath.Clean
Clean(goos, p) ==
    LET vl     == volumeNameLen(goos, p)
        vol    == SubSeq(p, 1, vl)
        rest   == Drop(p, vl)
        rooted == Len(rest) > 0 /\ IsPathSeparator(goos, rest[1])
        out    == cleanElems(splitPath(goos, rest, 1, <<>>), 1, rooted, <<>>)
        body   == joinWith(out, Separator(goos))
    IN  IF Len(rest) = 0 THEN vol \o <<".">>
        ELSE IF rooted THEN vol \o <<Separator(goos)>> \o body
        ELSE IF Len(body) = 0 THEN vol \o <<".">>
        ELSE vol \o body

\* the non-empty elements of elems
RECURSIVE nonEmpty(_)
nonEmpty(elems) ==
    IF Len(elems) = 0 THEN <<>>
    ELSE IF Len(elems[1]) = 0 THEN nonEmpty(Tail(elems))
    ELSE <<elems[1]>> \o nonEmpty(Tail(elems))

\* filepath.Join: empty elements are ignored, the rest joined and cleaned;
\* the empty string when every element is empty
Join(goos, elems) ==
    LET ne == nonEmpty(elems) IN
      IF Len(ne) = 0 THEN <<>>
      ELSE IF goos = "windows" /\ Len(ne[1]) = 2 /\ ne[1][2] = ":"
      THEN \* a bare drive letter takes no separator after it
           Clean(goos, ne[1] \o joinWith(Tail(ne), Separator(goos)))
      ELSE Clean(goos, joinWith(ne, Separator(goos)))

(***************************************************************************)
(* getCAROOT, main.go:108-134                                              *)
(***************************************************************************)
mkcertDir == <<"m", "k", "c", "e", "r", "t">>

LibraryDir == <<"L", "i", "b", "r", "a", "r", "y">>

AppSupportDir == <<"A", "p", "p", "l", "i", "c", "a", "t", "i", "o", "n", " ",
                   "S", "u", "p", "p", "o", "r", "t">>

dotLocalDir == <<".", "l", "o", "c", "a", "l">>

shareDir == <<"s", "h", "a", "r", "e">>

\* case "windows": dir = os.Getenv("LocalAppData")
windowsDir(e) == e.LocalAppData

baseDirHomeFirst(e, goos) ==
    CASE goos = "windows" -> [resolved |-> TRUE, dir |-> windowsDir(e)]
      [] goos = "darwin" ->
            IF e.HOME = <<>> THEN [resolved |-> FALSE, dir |-> <<>>]
            ELSE [resolved |-> TRUE,
                  dir |-> Join(goos, <<e.HOME, LibraryDir, AppSupportDir>>)]
      [] OTHER ->
            IF e.HOME # <<>>
            THEN [resolved |-> TRUE,
                  dir |-> Join(goos, <<e.HOME, dotLocalDir, shareDir>>)]
            ELSE IF e.XDG_DATA_HOME = <<>> THEN [resolved |-> FALSE, dir |-> <<>>]
            ELSE [resolved |-> TRUE, dir |-> e.XDG_DATA_HOME]

\* the switch of main.go:114-132: the value of dir, and whether the code
\* went on to main.go:133 (FALSE where it returns "" from inside the switch)
baseDir(e, goos) ==
    CASE goos = "windows" -> [resolved |-> TRUE, dir |-> windowsDir(e)]
      [] goos = "darwin" ->
            IF e.HOME = <<>> THEN [resolved |-> FALSE, dir |-> <<>>]
            ELSE [resolved |-> TRUE,
                  dir |-> Join(goos, <<e.HOME, LibraryDir, AppSupportDir>>)]
      [] OTHER ->
            IF e.XDG_DATA_HOME # <<>>
            THEN [resolved |-> TRUE, dir |-> e.XDG_DATA_HOME]
            ELSE IF e.HOME = <<>> THEN [resolved |-> FALSE, dir |-> <<>>]
            ELSE [resolved |-> TRUE,
                  dir |-> Join(goos, <<e.HOME, dotLocalDir, shareDir>>)]

getCAROOTJoinsOverride(e, goos) ==
    LET b == baseDir(e, goos) IN
      IF e.CAROOT # <<>> THEN Join(goos, <<e.CAROOT, mkcertDir>>)
      ELSE IF ~b.resolved THEN <<>>
      ELSE Join(goos, <<b.dir, mkcertDir>>)

getCAROOT(e, goos) ==
    IF e.CAROOT # <<>> THEN e.CAROOT
    ELSE LET b == baseDir(e, goos) IN
      IF ~b.resolved THEN <<>>
      ELSE Join(goos, <<b.dir, mkcertDir>>)

(***************************************************************************)
(* Bounds and the inputs the specifications draw                           *)
(***************************************************************************)
\* longest identifier list of a run
MaxArgs == 2

\* longest identifier enumerated exhaustively over Alphabet
MaxLen == 4

Alphabet == {"a", "1", "-", "_", ".", "*", ":", " "}

exampleCom == <<"e", "x", "a", "m", "p", "l", "e", ".", "c", "o", "m">>

loopback6 == <<":", ":", "1">>

spacedName == <<"e", "x", "a", " ", "m", "p", "l", "e", ".", "c", "o", "m">>

\* the identifiers a run's argument list is drawn from
RunNames == {exampleCom, loopback6, spacedName}

ArgLists == UNION {[1 .. n -> RunNames] : n \in 0 .. MaxArgs}

homeU == <<"/", "h", "o", "m", "e", "/", "u">>

xdgData == <<"/", "x", "d", "g">>

localAppData == <<"C", ":", "\\", "L">>

caRootOverride == <<"/", "c", "a">>

Env(c, l, h, x) == [CAROOT |-> c, LocalAppData |-> l, HOME |-> h, XDG_DATA_HOME |-> x]

\* the machines a sequence of runs is checked on
RunMachines ==
    {[goos |-> "linux",   env |-> Env(<<>>, <<>>, homeU, <<>>)],
     [goos |-> "linux",   env |-> Env(<<>>, <<>>, homeU, xdgData)],
     [goos |-> "linux",   env |-> Env(<<>>, <<>>, <<>>, <<>>)],
     [goos |-> "linux",   env |-> Env(caRootOverride, <<>>, <<>>, <<>>)],
     [goos |-> "darwin",  env |-> Env(<<>>, <<>>, homeU, <<>>)],
     [goos |-> "darwin",  env |-> Env(<<>>, <<>>, <<>>, xdgData)],
     [goos |-> "windows", env |-> Env(<<>>, localAppData, <<>>, <<>>)],
     [goos |-> "windows", env |-> Env(<<>>, <<>>, homeU, <<>>)]}

\* what is on disk and in the trust store when the first process starts
DiskStates ==
    {[dir |-> FALSE, files |-> "absent",  trusted |-> FALSE],
     [dir |-> TRUE,  files |-> "absent",  trusted |-> FALSE],
     [dir |-> TRUE,  files |-> "valid",   trusted |-> FALSE],
     [dir |-> TRUE,  files |-> "valid",   trusted |-> TRUE],
     [dir |-> TRUE,  files |-> "corrupt", trusted |-> FALSE]}

(***************************************************************************)
(* External collaborators (other files of the repository)                  *)
(***************************************************************************)
\* m.loadCA(): load the authority, creating it when the files are absent
loadCAOutcome(files) ==
    CASE files = "valid"   -> [ok |-> TRUE,  files |-> "valid"]
      [] files = "absent"  -> [ok |-> TRUE,  files |-> "valid"]
      [] files = "corrupt" -> [ok |-> FALSE, files |-> "corrupt"]

\* m.installPlatform(): on success the authority is trusted; an error is fatal
installPlatformOutcomes(tr) ==
    {[ok |-> TRUE, trusted |-> TRUE]} \cup {[ok |-> FALSE, trusted |-> t] : t \in {tr, TRUE}}

\* m.uninstallPlatform(): on success the authority is no longer trusted
uninstallPlatformOutcomes(tr) ==
    {[ok |-> TRUE, trusted |-> FALSE]} \cup {[ok |-> FALSE, trusted |-> t] : t \in {tr, FALSE}}

(***************************************************************************)
(* check, main.go:156-163                                                  *)
(***************************************************************************)
\* m.caCert.Verify(x509.VerifyOptions{}): the system cert pool is loaded on
\* first use and kept for the life of the process (main.go:43-45)
poolAfterVerify(pool, tr) ==
    IF pool = "unloaded" THEN (IF tr THEN "has" ELSE "hasnot") ELSE pool

checkIgnoringFlag(ignore, pool, tr) == poolAfterVerify(pool, tr) = "has"

checkAlwaysTrue(ignore, pool, tr) == TRUE

\* the value check() returns
check(ignore, pool, tr) ==
    IF ignore THEN TRUE ELSE poolAfterVerify(pool, tr) = "has"

\* the cert pool after check() has returned
poolAfterCheck(ignore, pool, tr) ==
    IF ignore THEN pool ELSE poolAfterVerify(pool, tr)

(***************************************************************************)
(* Control flow of main and Run                                            *)
(***************************************************************************)
flagsConflictNever(i, u) == FALSE

\* main.go:25
flagsConflict(i, u) == i /\ u

modeEntryCheckFirst(i, u) == IF i THEN "install" ELSE "passiveCheck"

modeEntrySkipsCheck(i, u) ==
    IF i THEN "install" ELSE IF u THEN "uninstall" ELSE "argsCheck"

modeEntryAutoInstall(i, u) == IF u THEN "uninstall" ELSE "install"

\* main.go:57, 62, 65: where Run goes once the authority is loaded
modeEntry(i, u) ==
    IF i THEN "install" ELSE IF u THEN "uninstall" ELSE "passiveCheck"

alreadyInstalledNever(r) == FALSE

\* main.go:137-139: install returns at once when check() is true
alreadyInstalled(r) == r

afterInstallAlwaysContinues(a) == "argsCheck"

\* main.go:59-61: after install, return when there are no identifiers
afterInstall(a) == IF Len(a) = 0 THEN "done" ELSE "argsCheck"

afterUninstallFallsThrough(a) == "argsCheck"

\* main.go:63-64: after uninstall, return
afterUninstall(a) == "done"

passiveCheckFatal(r) == IF r THEN "argsCheck" ELSE "fatal"

\* main.go:65-68: a failed check only prints the warning
passiveCheckNext(r) == "argsCheck"

loopDoneEarly(i, a) == i >= 1 \/ i = Len(a)

\* main.go:95: the range loop is over when every element has been visited
loopDone(i, a) == i = Len(a)

Log(e) == events' = Append(events, e)

Fatal(e) == pc' = "fatal" /\ Log(e)

\* func main, main.go:20-31
Main ==
    /\ pc = "main"
    /\ IF flagsConflict(installFlag, uninstallFlag)
       THEN Fatal("fatal:flags")
       ELSE pc' = "getCAROOT" /\ UNCHANGED events
    /\ UNCHANGED <<buildVars, configVars, dirExists, caFiles, trusted, CAROOT, caCert,
                   ignoreCheckFailure, sysPool, idx, issued, name>>

caRootNeverEmpty(c) == FALSE

\* main.go:51: m.CAROOT == ""
caRootIsEmpty(c) == c = <<>>

\* Run, main.go:50-53
RunGetCAROOT ==
    /\ pc = "getCAROOT"
    /\ CAROOT' = getCAROOT(env, GOOS)
    /\ IF caRootIsEmpty(CAROOT')
       THEN Fatal("fatal:caroot")
       ELSE pc' = "mkdir" /\ Log("getCAROOT")
    /\ UNCHANGED <<buildVars, configVars, dirExists, caFiles, trusted, caCert,
                   ignoreCheckFailure, sysPool, idx, issued, name>>

\* Run, main.go:54: os.MkdirAll succeeds on an existing directory
RunMkdirAll ==
    /\ pc = "mkdir"
    /\ \E ok \in (IF dirExists THEN {TRUE} ELSE BOOLEAN) :
          IF ok
          THEN dirExists' = TRUE /\ pc' = "loadCA" /\ Log("mkdir")
          ELSE UNCHANGED dirExists /\ Fatal("fatal:mkdir")
    /\ UNCHANGED <<buildVars, configVars, caFiles, trusted, CAROOT, caCert,
                   ignoreCheckFailure, sysPool, idx, issued, name>>

\* Run, main.go:55-65: load the authority, then branch on the mode
RunLoadCA ==
    /\ pc = "loadCA"
    /\ LET o == loadCAOutcome(caFiles) IN
         /\ caFiles' = o.files
         /\ IF o.ok
            THEN caCert' = TRUE /\ pc' = modeEntry(installFlag, uninstallFlag)
                 /\ Log("loadCA")
            ELSE UNCHANGED caCert /\ Fatal("fatal:loadCA")
    /\ UNCHANGED <<buildVars, configVars, dirExists, trusted, CAROOT,
                   ignoreCheckFailure, sysPool, idx, issued, name>>

InstallCheckSetsOverride ==
    /\ pc = "install"
    /\ sysPool' = poolAfterCheck(ignoreCheckFailure, sysPool, trusted)
    /\ Log("check")
    /\ ignoreCheckFailure' = TRUE
    /\ pc' = IF alreadyInstalled(check(ignoreCheckFailure, sysPool, trusted))
             THEN afterInstall(args)
             ELSE "installPlatform"
    /\ UNCHANGED <<buildVars, configVars, dirExists, caFiles, trusted, CAROOT, caCert,
                   idx, issued, name>>

\* install, main.go:137-139
InstallCheck ==
    /\ pc = "install"
    /\ sysPool' = poolAfterCheck(ignoreCheckFailure, sysPool, trusted)
    /\ Log("check")
    /\ pc' = IF alreadyInstalled(check(ignoreCheckFailure, sysPool, trusted))
             THEN afterInstall(args)
             ELSE "installPlatform"
    /\ UNCHANGED <<buildVars, configVars, dirExists, caFiles, trusted, CAROOT, caCert,
                   ignoreCheckFailure, idx, issued, name>>

\* install, main.go:141-142
InstallPlatform ==
    /\ pc = "installPlatform"
    /\ \E o \in installPlatformOutcomes(trusted) :
          /\ trusted' = o.trusted
          /\ IF o.ok
             THEN /\ ignoreCheckFailure' = TRUE
                  /\ pc' = "installVerify"
                  /\ events' = events \o <<"installPlatform", "installPlatform:returned">>
             ELSE /\ UNCHANGED ignoreCheckFailure
                  /\ pc' = "fatal"
                  /\ events' = events \o <<"installPlatform", "fatal:installPlatform">>
    /\ UNCHANGED <<buildVars, configVars, dirExists, caFiles, CAROOT, caCert,
                   sysPool, idx, issued, name>>

\* install, main.go:144-148, and Run, main.go:59-61
InstallVerify ==
    /\ pc = "installVerify"
    /\ sysPool' = poolAfterCheck(ignoreCheckFailure, sysPool, trusted)
    /\ IF check(ignoreCheckFailure, sysPool, trusted)
       THEN /\ pc' = afterInstall(args)
            /\ events' = events \o <<"check", "installed">>
       ELSE /\ pc' = "fatal"
            /\ events' = events \o <<"check", "fatal:installFailed">>
    /\ UNCHANGED <<buildVars, configVars, dirExists, caFiles, trusted, CAROOT, caCert,
                   ignoreCheckFailure, idx, issued, name>>

\* uninstall, main.go:151-154, and Run, main.go:63-64
Uninstall ==
    /\ pc = "uninstall"
    /\ \E o \in uninstallPlatformOutcomes(trusted) :
          /\ trusted' = o.trusted
          /\ IF o.ok
             THEN /\ pc' = afterUninstall(args)
                  /\ events' = events \o <<"uninstallPlatform", "uninstalled">>
             ELSE /\ pc' = "fatal"
                  /\ events' = events \o <<"uninstallPlatform", "fatal:uninstallPlatform">>
    /\ UNCHANGED <<buildVars, configVars, dirExists, caFiles, CAROOT, caCert,
                   ignoreCheckFailure, sysPool, idx, issued, name>>

\* Run, main.go:65-68
PassiveCheck ==
    /\ pc = "passiveCheck"
    /\ sysPool' = poolAfterCheck(ignoreCheckFailure, sysPool, trusted)
    /\ LET r == check(ignoreCheckFailure, sysPool, trusted) IN
         /\ pc' = passiveCheckNext(r)
         /\ events' = events \o (IF r THEN <<"check">> ELSE <<"check", "warning">>)
                             \o (IF passiveCheckNext(r) = "fatal"
                                 THEN <<"fatal:check">> ELSE <<>>)
    /\ UNCHANGED <<buildVars, configVars, dirExists, caFiles, trusted, CAROOT, caCert,
                   ignoreCheckFailure, idx, issued, name>>

\* Run, main.go:70-92
ArgsCheck ==
    /\ pc = "argsCheck"
    /\ IF Len(args) = 0
       THEN pc' = "done" /\ Log("usage")
       ELSE pc' = "validate" /\ Log("validate")
    /\ UNCHANGED <<buildVars, configVars, dirExists, caFiles, trusted, CAROOT, caCert,
                   ignoreCheckFailure, sysPool, idx, issued, name>>

ValidateNameConsuming ==
    /\ pc = "validate"
    /\ ~loopDone(idx, args)
    /\ LET n == args[idx + 1] IN
         IF validName(n, legacyParse)
         THEN args' = Tail(args) /\ Log("validName") /\ UNCHANGED <<pc, name>>
         ELSE name' = n /\ Fatal("fatal:name") /\ UNCHANGED args
    /\ UNCHANGED <<buildVars, installFlag, uninstallFlag, dirExists, caFiles, trusted,
                   CAROOT, caCert, ignoreCheckFailure, sysPool, idx, issued>>

\* Run, main.go:95-103: one iteration of the validation loop
ValidateName ==
    /\ pc = "validate"
    /\ ~loopDone(idx, args)
    /\ LET n == args[idx + 1] IN
         IF validName(n, legacyParse)
         THEN idx' = idx + 1 /\ Log("validName") /\ UNCHANGED <<pc, name>>
         ELSE name' = n /\ Fatal("fatal:name") /\ UNCHANGED idx
    /\ UNCHANGED <<buildVars, configVars, dirExists, caFiles, trusted, CAROOT, caCert,
                   ignoreCheckFailure, sysPool, issued>>

\* Run, main.go:105: m.makeCert(args); an error inside it is fatal
MakeCert ==
    /\ pc = "validate"
    /\ loopDone(idx, args)
    /\ issued' = args
    /\ \E ok \in BOOLEAN :
          IF ok
          THEN pc' = "done" /\ Log("makeCert")
          ELSE pc' = "fatal" /\ events' = events \o <<"makeCert", "fatal:makeCert">>
    /\ UNCHANGED <<buildVars, configVars, dirExists, caFiles, trusted, CAROOT, caCert,
                   ignoreCheckFailure, sysPool, idx, name>>

(***************************************************************************)
(* Processes                                                               *)
(***************************************************************************)
\* a process right after flag.Parse(): the zero mkcert struct of main.go:28
FreshProcess(i, u, a) ==
    /\ pc = "main"
    /\ installFlag = i
    /\ uninstallFlag = u
    /\ args = a
    /\ CAROOT = <<>>
    /\ caCert = FALSE
    /\ ignoreCheckFailure = FALSE
    /\ sysPool = "unloaded"
    /\ idx = 0
    /\ issued = <<>>
    /\ events = <<>>
    /\ name = <<>>

\* how a finished process ended
runSummary ==
    IF pc = "fatal" THEN "fatal"
    ELSE IF installFlag THEN "install_ok"
    ELSE IF uninstallFlag THEN "uninstall_ok"
    ELSE "default_ok"

\* the process has exited; the next one starts on the same machine
Exec ==
    /\ pc \in {"done", "fatal"}
    /\ prevRun' = runSummary
    /\ \E i \in BOOLEAN, u \in BOOLEAN, a \in ArgLists :
          /\ pc' = "main"
          /\ installFlag' = i
          /\ uninstallFlag' = u
          /\ args' = a
    /\ CAROOT' = <<>>
    /\ caCert' = FALSE
    /\ ignoreCheckFailure' = FALSE
    /\ sysPool' = "unloaded"
    /\ idx' = 0
    /\ issued' = <<>>
    /\ events' = <<>>
    /\ name' = <<>>
    /\ UNCHANGED <<GOOS, env, legacyParse, dirExists, caFiles, trusted>>

Init ==
    /\ \E m \in RunMachines : GOOS = m.goos /\ env = m.env
    /\ legacyParse \in BOOLEAN
    /\ \E d \in DiskStates :
          dirExists = d.dir /\ caFiles = d.files /\ trusted = d.trusted
    /\ prevRun = "none"
    /\ \E i \in BOOLEAN, u \in BOOLEAN, a \in ArgLists : FreshProcess(i, u, a)

Next ==
    \/ Main
    \/ RunGetCAROOT
    \/ RunMkdirAll
    \/ RunLoadCA
    \/ InstallCheck
    \/ InstallPlatform
    \/ InstallVerify
    \/ Uninstall
    \/ PassiveCheck
    \/ ArgsCheck
    \/ ValidateName
    \/ MakeCert
    \/ Exec

Spec == Init /\ [][Next]_vars

(***************************************************************************)
(* The identifier validator on its own: a default-mode process that has    *)
(* reached the validation loop with a single identifier, drawn from every  *)
(* string of at most MaxLen characters over Alphabet and from the          *)
(* identifiers named below.                                                *)
(***************************************************************************)
dashFoo == <<"-", "f", "o", "o">>

fooBarBaz == <<"f", "o", "o", "_", "b", "a", "r", ".", ".", "b", "a", "z">>

wildcardExample == <<"*", ".">> \o exampleCom

upperExample == <<"E", "X", "A", "M", "P", "L", "E", ".", "C", "o", "m">>

loopback4 == <<"1", "2", "7", ".", "0", ".", "0", ".", "1">>

threeOctets == <<"1", "0", ".", "0", ".", "1">>

zeroPadded6 == <<":", ":", "0", "1", ".", "0", ".", "0", ".", "1">>

longGroup6 == <<":", ":", "0", "0", "0", "0", "1">>

mapped4 == <<":", ":", "f", "f", "f", "f", ":", "1", ".", "2", ".", "3", ".", "4">>

fullV6 == <<"1", ":", "2", ":", "3", ":", "4", ":", "5", ":", "6", ":", "7", ":", "8">>

zonedV6 == <<"f", "e", "8", "0", ":", ":", "1", "%", "e", "t", "h", "0">>

trailingDot == exampleCom \o <<".">>

kelvinHost == <<"U+212A", "8", "s", ".", "i", "o">>

NamedIdentifiers ==
    {dashFoo, fooBarBaz, spacedName, exampleCom, wildcardExample, upperExample,
     loopback4, threeOctets, zeroPadded6, longGroup6, mapped4, fullV6, zonedV6,
     trailingDot, kelvinHost, loopback6}

Identifiers ==
    NamedIdentifiers \cup UNION {[1 .. n -> Alphabet] : n \in 0 .. MaxLen}

InitValidator ==
    /\ GOOS = "linux"
    /\ env = Env(<<>>, <<>>, homeU, <<>>)
    /\ legacyParse \in BOOLEAN
    /\ dirExists = TRUE
    /\ caFiles = "valid"
    /\ trusted = TRUE
    /\ prevRun = "none"
    /\ pc = "validate"
    /\ installFlag = FALSE
    /\ uninstallFlag = FALSE
    /\ \E s \in Identifiers : args = <<s>>
    /\ CAROOT = getCAROOT(env, GOOS)
    /\ caCert = TRUE
    /\ ignoreCheckFailure = FALSE
    /\ sysPool = "has"
    /\ idx = 0
    /\ issued = <<>>
    /\ events = <<"getCAROOT", "mkdir", "loadCA", "check", "validate">>
    /\ name = <<>>

NextValidator ==
    \/ ValidateName
    \/ MakeCert

SpecValidator == InitValidator /\ [][NextValidator]_vars

(***************************************************************************)
(* Vocabulary of the properties                                            *)
(***************************************************************************)
Has(e) == \E k \in DOMAIN events : events[k] = e

Count(e) == Cardinality({k \in DOMAIN events : events[k] = e})

InstallRun == installFlag /\ ~uninstallFlag

UninstallRun == uninstallFlag /\ ~installFlag

DefaultRun == ~installFlag /\ ~uninstallFlag

\* the two tests of main.go:96 and main.go:99
IsIPLiteral(s) == ParseIP(s, legacyParse)

\* s without a leading "*."
afterWildcard(s) ==
    IF Len(s) >= 2 /\ SubSeq(s, 1, 2) = <<"*", ".">> THEN SubSeq(s, 3, Len(s)) ELSE s

\* the dot-separated labels of t
RECURSIVE labelsOf(_)
labelsOf(t) ==
    IF \A k \in DOMAIN t : t[k] # "." THEN <<t>>
    ELSE LET d == CHOOSE k \in DOMAIN t :
                     t[k] = "." /\ \A j \in 1 .. k - 1 : t[j] # "."
         IN  <<SubSeq(t, 1, d - 1)>> \o labelsOf(SubSeq(t, d + 1, Len(t)))

\* alphanumerics (the letters that fold onto a-z included), underscore, hyphen
LabelChar == Digit \cup Lower \cup Upper \cup {"U+017F", "U+212A", "_", "-"}

\* the hostname grammar as the specification words it: every label is
\* non-empty and neither starts nor ends with a hyphen or an underscore
StrictGrammar(s) ==
    LET ls == labelsOf(afterWildcard(s)) IN
      \A k \in DOMAIN ls :
         /\ ls[k] # <<>>
         /\ \A j \in DOMAIN ls[k] : ls[k][j] \in LabelChar
         /\ ls[k][1] \notin {"-", "_"}
         /\ ls[k][Len(ls[k])] \notin {"-", "_"}

\* the grammar the regular expression accepts: labels of alphanumerics,
\* underscore and hyphen, of which only the first and the last must be
\* non-empty
LooseGrammar(s) ==
    LET ls == labelsOf(afterWildcard(s)) IN
      /\ \A k \in DOMAIN ls : \A j \in DOMAIN ls[k] : ls[k][j] \in LabelChar
      /\ ls[1] # <<>>
      /\ ls[Len(ls)] # <<>>

\* the validation loop has decided the first identifier
Decided == Len(args) >= 1 /\ (idx >= 1 \/ Has("fatal:name"))

Rejected(s) == pc = "fatal" /\ Has("fatal:name") /\ name = s /\ ~Has("makeCert")

(***************************************************************************)
(* Properties                                                              *)
(***************************************************************************)
AnyInvalid == \E k \in DOMAIN args : ~(IsIPLiteral(args[k]) \/ hostnameRegexpMatch(args[k]))

AllLoose == \A k \in DOMAIN args : IsIPLiteral(args[k]) \/ LooseGrammar(args[k])

\* C1 as stated: once the validator has decided an identifier that is neither
\* an IP literal nor a hostname of the strict grammar (every label non-empty,
\* no label starting or ending with a hyphen or an underscore), the run has
\* ended fatally naming it.
C1_StrictRejects ==
    (Decided /\ ~IsIPLiteral(args[1]) /\ ~StrictGrammar(args[1])) => Rejected(args[1])

\* C1 amended: the validator rejects, fatally and naming the string, every
\* identifier that is neither an IP literal nor a hostname of the loose
\* grammar (optional "*.", then characters that are alphanumerics, underscore,
\* hyphen or dot, the first and the last not a dot). The empty string and
\* "exa mple.com" are rejected; "-foo" and "foo_bar..baz" are accepted.
C1_LooseRejects ==
    /\ (Decided /\ ~IsIPLiteral(args[1]) /\ ~LooseGrammar(args[1])) => Rejected(args[1])
    /\ (pc = "fatal" /\ Has("fatal:name")) => (~IsIPLiteral(name) /\ ~Has("makeCert"))
    /\ (Decided /\ args[1] \in {dashFoo, fooBarBaz}) => (idx = 1 /\ ~Has("fatal:name"))
    /\ (Decided /\ args[1] = spacedName) => Rejected(spacedName)

C1_Witness == Rejected(spacedName) /\ args = <<spacedName>>

\* C2 as stated: a run performs at most one of platform install, platform
\* uninstall, and check followed by issuance.
C2_AtMostOneActivity ==
    Cardinality({a \in {"installPlatform", "uninstallPlatform", "makeCert"} : Has(a)}) <= 1

\* C2 amended: a run never invokes both the platform installer and the
\* platform uninstaller, and a run that invokes the uninstaller neither checks
\* nor issues; but an install-mode run with a non-empty identifier list goes
\* on, after the install, to validate and issue, so the installer and the
\* issuer are both invoked in such a run (and only in such a run).
C2_InstallMayIssue ==
    /\ ~(Has("installPlatform") /\ Has("uninstallPlatform"))
    /\ Has("uninstallPlatform") => (~Has("check") /\ ~Has("makeCert") /\ issued = <<>>)
    /\ (Has("installPlatform") /\ Has("makeCert")) => (InstallRun /\ Len(args) > 0)
    /\ (InstallRun /\ Len(args) > 0 /\ pc = "done") => (Has("makeCert") /\ issued = args)

C2_Witness == Has("installPlatform") /\ Has("makeCert") /\ pc = "done"

\* the cases in which the Environment Resolver is to answer "unresolved"
NoBaseDirectory ==
    /\ env.CAROOT = <<>>
    /\ \/ GOOS = "windows" /\ env.LocalAppData = <<>>
       \/ GOOS = "darwin" /\ env.HOME = <<>>
       \/ GOOS \notin {"windows", "darwin"} /\ env.XDG_DATA_HOME = <<>> /\ env.HOME = <<>>

\* C3: with no override and no base directory for the host's OS family, the
\* resolver returns the empty result, which Run treats as fatal: once Run is
\* past the resolver, the storage root is empty and the run has ended with the
\* "failed to find the default CA location" error.
C3_UnresolvedIsFatal ==
    (NoBaseDirectory /\ pc \notin {"main", "getCAROOT"} /\ ~Has("fatal:flags"))
        => (CAROOT = <<>> /\ pc = "fatal" /\ Has("fatal:caroot"))

\* C4: with both mode flags set the process ends in main with the fatal flag
\* error; nothing is resolved, created, loaded, checked, installed, uninstalled
\* or issued, and no step of it changes the disk or the trust store.
C4_BothFlagsAbort ==
    /\ []((installFlag /\ uninstallFlag) =>
            /\ pc \in {"main", "fatal"}
            /\ events \in {<<>>, <<"fatal:flags">>}
            /\ CAROOT = <<>> /\ ~caCert /\ sysPool = "unloaded" /\ issued = <<>>)
    /\ [][(installFlag /\ uninstallFlag) => UNCHANGED <<dirExists, caFiles, trusted>>]_vars

C4_Witness == installFlag /\ uninstallFlag /\ pc = "fatal" /\ ~dirExists

\* C5: in the process that follows a successful install-mode run, an
\* install-mode run finds check() true, does not invoke the platform installer
\* and leaves the trust store as it was (trusted).
C5_InstallIdempotent ==
    (prevRun = "install_ok" /\ InstallRun) =>
        /\ trusted
        /\ ~Has("installPlatform") /\ pc \notin {"installPlatform", "installVerify"}
        /\ ~ignoreCheckFailure
        /\ Has("check") => sysPool = "has"

C5_Witness == prevRun = "install_ok" /\ InstallRun /\ Has("check") /\ pc = "done"

\* C6: the issuer is called only after every identifier has been validated and
\* then receives the whole argument list unchanged; with an invalid identifier
\* anywhere in the list the issuer is never called, and a run that has entered
\* the validation loop ends fatally, naming the first invalid identifier.
C6_ValidateBeforeIssue ==
    /\ Has("makeCert") => (idx = Len(args) /\ issued = args /\ ~AnyInvalid)
    /\ AnyInvalid => (~Has("makeCert") /\ issued = <<>>)
    /\ (AnyInvalid /\ Has("validate")) =>
          /\ pc \in {"validate", "fatal"}
          /\ pc = "fatal" =>
                /\ Has("fatal:name")
                /\ name = args[idx + 1]
                /\ ~(IsIPLiteral(name) \/ hostnameRegexpMatch(name))

C6_Witness ==
    /\ Len(args) = 2 /\ args[1] = exampleCom /\ args[2] = spacedName
    /\ pc = "fatal" /\ Has("fatal:name") /\ idx = 1

\* C7: once the platform installer has returned, the override flag is set and
\* check() is true whatever the cert pool and the trust store hold; the
\* "Installing failed" outcome never occurs and success is reported.
C7_OverrideAfterInstall ==
    /\ Has("installPlatform:returned") =>
          /\ ignoreCheckFailure
          /\ \A p \in {"unloaded", "has", "hasnot"}, t \in BOOLEAN :
                check(ignoreCheckFailure, p, t)
          /\ pc # "installVerify" => Has("installed")
    /\ ~Has("fatal:installFailed")

C7_Witness == Has("installed") /\ sysPool = "hasnot" /\ pc = "done"

\* C8: an uninstall-mode run never calls check(), never validates and never
\* issues; once the authority is loaded it invokes the platform uninstaller
\* exactly once, and on its return reports success and ends.
C8_UninstallUnconditional ==
    UninstallRun =>
        /\ ~Has("check") /\ sysPool = "unloaded"
        /\ ~Has("validate") /\ ~Has("validName") /\ idx = 0
        /\ ~Has("makeCert") /\ issued = <<>>
        /\ Count("uninstallPlatform") <= 1
        /\ (caCert /\ pc \in {"done", "fatal"}) => Count("uninstallPlatform") = 1
        /\ pc = "done" =>
              events = <<"getCAROOT", "mkdir", "loadCA", "uninstallPlatform", "uninstalled">>

C8_Witness == UninstallRun /\ pc = "done" /\ Len(args) = 2 /\ Has("uninstalled")

\* C9: in a default-mode run whose check() failed, only the warning follows
\* from it: neither platform operation is invoked, and with a non-empty list of
\* valid identifiers the run goes on to the issuer (it ends only through it).
C9_WarningOnly ==
    (DefaultRun /\ Has("warning")) =>
        /\ ~Has("installPlatform") /\ ~Has("uninstallPlatform")
        /\ pc = "fatal" => events[Len(events)] \in {"fatal:name", "fatal:makeCert"}
        /\ (Len(args) > 0 /\ ~AnyInvalid) =>
              /\ pc \in {"argsCheck", "validate", "done", "fatal"}
              /\ pc \in {"done", "fatal"} => (Has("makeCert") /\ issued = args)

C9_Witness == DefaultRun /\ Has("warning") /\ Has("makeCert") /\ pc = "done"

\* C10: in the process that follows a successful uninstall-mode run the
\* authority's files are still there and check() is false: a default-mode run
\* warns, an install-mode run invokes the platform installer. No step of any
\* run removes or replaces authority files that are in place.
C10_AfterUninstall ==
    /\ [](prevRun = "uninstall_ok" =>
            /\ dirExists /\ caFiles = "valid"
            /\ ~Has("installPlatform") => ~trusted
            /\ (DefaultRun /\ Has("check")) => (Has("warning") /\ sysPool = "hasnot")
            /\ (InstallRun /\ Has("check")) =>
                  (pc = "installPlatform" \/ Has("installPlatform")))
    /\ [][caFiles = "valid" => UNCHANGED <<dirExists, caFiles>>]_vars

C10_Witness == prevRun = "uninstall_ok" /\ InstallRun /\ Has("installed")

\* C11: when the resolver returns the empty result the run ends at once with
\* the "failed to find the default CA location" error: the directory is not
\* created, the authority is not loaded, nothing is checked, installed,
\* uninstalled, validated or issued, and no step of the process changes the
\* disk or the trust store.
C11_UnresolvedStopsRun ==
    /\ []((getCAROOT(env, GOOS) = <<>> /\ ~(installFlag /\ uninstallFlag)) =>
            /\ pc \in {"main", "getCAROOT", "fatal"}
            /\ events \in {<<>>, <<"fatal:caroot">>}
            /\ pc = "fatal" <=> events = <<"fatal:caroot">>
            /\ CAROOT = <<>> /\ ~caCert /\ sysPool = "unloaded"
            /\ idx = 0 /\ issued = <<>> /\ ~ignoreCheckFailure)
    /\ [][getCAROOT(env, GOOS) = <<>> => UNCHANGED <<dirExists, caFiles, trusted>>]_vars

C11_Witness ==
    /\ getCAROOT(env, GOOS) = <<>> /\ pc = "fatal" /\ events = <<"fatal:caroot">>
    /\ ~dirExists /\ installFlag /\ Len(args) > 0

(***************************************************************************)
(* The Environment Resolver on its own: a process about to call getCAROOT, *)
(* on every OS family and every combination of the values below.           *)
(***************************************************************************)
messyOverride == <<"c", "a", "/", ".", ".", "/", "x", "/">>

homeSlash == homeU \o <<"/">>

xdgSlash == xdgData \o <<"/">>

localAppDataSlash == <<"D", ":", "\\", "d", "\\">>

ResolverOS == {"linux", "freebsd", "darwin", "windows"}

ResolverEnvs ==
    {Env(c, l, h, x) : c \in {<<>>, caRootOverride, messyOverride},
                       l \in {<<>>, localAppData, localAppDataSlash},
                       h \in {<<>>, homeU, homeSlash},
                       x \in {<<>>, xdgData, xdgSlash}}

InitResolver ==
    /\ GOOS \in ResolverOS
    /\ env \in ResolverEnvs
    /\ legacyParse = FALSE
    /\ dirExists = FALSE
    /\ caFiles = "absent"
    /\ trusted = FALSE
    /\ prevRun = "none"
    /\ pc = "getCAROOT"
    /\ installFlag = FALSE
    /\ uninstallFlag = FALSE
    /\ args = <<>>
    /\ CAROOT = <<>>
    /\ caCert = FALSE
    /\ ignoreCheckFailure = FALSE
    /\ sysPool = "unloaded"
    /\ idx = 0
    /\ issued = <<>>
    /\ events = <<>>
    /\ name = <<>>

NextResolver ==
    \/ RunGetCAROOT
    \/ RunMkdirAll

SpecResolver == InitResolver /\ [][NextResolver]_vars

\* Run is past the call of getCAROOT
Resolved == pc \notin {"main", "getCAROOT"}

\* C12: with CAROOT set to a non-empty path, the storage root is exactly that
\* path (nothing appended, nothing normalised) on every OS family and whatever
\* LocalAppData, HOME and XDG_DATA_HOME hold, and the run goes on.
C12_OverrideVerbatim ==
    (Resolved /\ env.CAROOT # <<>>) =>
        /\ CAROOT = env.CAROOT
        /\ Has("getCAROOT") /\ ~Has("fatal:caroot")

C12_Witness ==
    /\ Resolved /\ CAROOT = messyOverride /\ GOOS = "windows"
    /\ env.LocalAppData = localAppData /\ env.HOME = homeU /\ env.XDG_DATA_HOME = xdgData

\* b without one trailing separator
trimSep(b, sep) ==
    IF Len(b) > 1 /\ b[Len(b)] = sep THEN SubSeq(b, 1, Len(b) - 1) ELSE b

\* the OS family's base variable is set
HasBaseDirectory ==
    \/ GOOS = "windows" /\ env.LocalAppData # <<>>
    \/ GOOS = "darwin" /\ env.HOME # <<>>
    \/ GOOS \notin {"windows", "darwin"} /\ (env.XDG_DATA_HOME # <<>> \/ env.HOME # <<>>)

\* the storage root the OS conventions give, written out
ConventionRoot ==
    CASE GOOS = "windows" ->
            trimSep(env.LocalAppData, "\\") \o <<"\\", "m", "k", "c", "e", "r", "t">>
      [] GOOS = "darwin" ->
            trimSep(env.HOME, "/")
              \o <<"/", "L", "i", "b", "r", "a", "r", "y", "/", "A", "p", "p", "l", "i",
                   "c", "a", "t", "i", "o", "n", " ", "S", "u", "p", "p", "o", "r", "t",
                   "/", "m", "k", "c", "e", "r", "t">>
      [] OTHER ->
            IF env.XDG_DATA_HOME # <<>>
            THEN trimSep(env.XDG_DATA_HOME, "/") \o <<"/", "m", "k", "c", "e", "r", "t">>
            ELSE trimSep(env.HOME, "/")
                   \o <<"/", ".", "l", "o", "c", "a", "l", "/", "s", "h", "a", "r", "e",
                        "/", "m", "k", "c", "e", "r", "t">>

\* C13: with no override and the OS family's base variable set, the storage
\* root is the conventional base directory followed by "mkcert": on a
\* Unix-like host XDG_DATA_HOME when set (HOME ignored), otherwise
\* HOME/.local/share; on macOS HOME/Library/Application Support; on Windows
\* LocalAppData. XDG_DATA_HOME unset and HOME=/home/u give
\* /home/u/.local/share/mkcert.
C13_ConventionPlusMkcert ==
    /\ (Resolved /\ env.CAROOT = <<>> /\ HasBaseDirectory) =>
          (CAROOT = ConventionRoot /\ ~Has("fatal:caroot"))
    /\ (Resolved /\ env.CAROOT = <<>> /\ GOOS = "linux"
          /\ env.XDG_DATA_HOME = <<>> /\ env.HOME = homeU) =>
          CAROOT = <<"/", "h", "o", "m", "e", "/", "u", "/", ".", "l", "o", "c", "a", "l",
                     "/", "s", "h", "a", "r", "e", "/", "m", "k", "c", "e", "r", "t">>

C13_Witness ==
    /\ Resolved /\ env.CAROOT = <<>> /\ GOOS = "freebsd"
    /\ env.XDG_DATA_HOME = xdgSlash /\ env.HOME = homeU
    /\ CAROOT = <<"/", "x", "d", "g", "/", "m", "k", "c", "e", "r", "t">>

\* the first identifier went through the loop without the fatal error
Accepted == idx >= 1 /\ Has("validName") /\ ~Has("fatal:name")

\* C14: once the validator has decided an identifier that parses as an IPv4 or
\* IPv6 literal, or that matches the hostname grammar (optional "*.", then
\* dot-separated non-empty labels of alphanumerics, underscore and hyphen that
\* neither start nor end with a hyphen or an underscore, in either case), the
\* identifier is accepted: there is no fatal rejection.
C14_ValidAccepted ==
    /\ (Decided /\ (IsIPLiteral(args[1]) \/ StrictGrammar(args[1]))) => Accepted
    /\ (Decided /\ args[1] \in {loopback4, loopback6, mapped4, fullV6, exampleCom,
                                wildcardExample, upperExample}) => Accepted

C14_Witness ==
    /\ args = <<fullV6>> /\ ~StrictGrammar(fullV6) /\ Accepted /\ Has("makeCert")

\* the step of Run an entry of the log belongs to: 1 resolve, 2 create the
\* directory, 3 load the authority, 4 mode action, 5 usage or validation,
\* 6 issuance, 7 the fatal exit
StepOf(e) ==
    CASE e = "getCAROOT" -> 1
      [] e = "mkdir" -> 2
      [] e = "loadCA" -> 3
      [] e \in {"check", "warning", "installPlatform", "installPlatform:returned",
                "installed", "uninstallPlatform", "uninstalled"} -> 4
      [] e \in {"usage", "validate", "validName"} -> 5
      [] e = "makeCert" -> 6
      [] OTHER -> 7

\* the mode action of this run has returned
ModeActionFinished ==
    \/ DefaultRun /\ Has("check")
    \/ InstallRun /\ Has("check") /\ (Has("installPlatform") => Has("installed"))
    \/ UninstallRun /\ Has("uninstalled")

\* C15: the steps of a run happen in the order resolve, create the directory,
\* load the authority, mode action, validation, issuance, and none is skipped
\* on the way: check, platform install and platform uninstall happen only with
\* the authority loaded, validation and issuance only after the mode action
\* has finished.
C15_StepOrder ==
    /\ \A j, k \in DOMAIN events : j < k => StepOf(events[j]) <= StepOf(events[k])
    /\ \A n \in 2 .. 6 :
          (\E k \in DOMAIN events : StepOf(events[k]) = n) =>
              (\E j \in DOMAIN events : StepOf(events[j]) = n - 1)
    /\ \A n \in 1 .. 3 : Cardinality({k \in DOMAIN events : StepOf(events[k]) = n}) <= 1
    /\ (\E k \in DOMAIN events : StepOf(events[k]) = 4) =>
          (caCert /\ Has("loadCA") /\ caFiles = "valid")
    /\ pc \in {"install", "installPlatform", "installVerify", "uninstall", "passiveCheck"}
          => (caCert /\ Has("loadCA"))
    /\ (pc = "validate" \/ Has("validate") \/ Has("validName") \/ Has("makeCert"))
          => ModeActionFinished
    /\ Has("makeCert") => (Has("validate") /\ Count("validName") = Len(args))

C15_Witness ==
    /\ InstallRun /\ pc = "done" /\ Len(args) = 2
    /\ events = <<"getCAROOT", "mkdir", "loadCA", "check", "installPlatform",
                  "installPlatform:returned", "check", "installed", "validate",
                  "validName", "validName", "makeCert">>

\* C16: with no identifiers the issuer is never invoked and nothing is
\* validated; an install run ends right after install and an uninstall run
\* right after uninstall, neither printing the usage text; a default run
\* prints the usage text after the check (and the warning, when the authority
\* is not trusted) and ends successfully.
C16_NoIdentifiers ==
    Len(args) = 0 =>
        /\ ~Has("makeCert") /\ ~Has("validate") /\ ~Has("validName") /\ issued = <<>>
        /\ pc \notin {"validate"}
        /\ (installFlag \/ uninstallFlag) => (~Has("usage") /\ pc # "argsCheck")
        /\ (InstallRun /\ pc = "done") =>
              events \in {<<"getCAROOT", "mkdir", "loadCA", "check">>,
                          <<"getCAROOT", "mkdir", "loadCA", "check", "installPlatform",
                            "installPlatform:returned", "check", "installed">>}
        /\ (UninstallRun /\ pc = "done") =>
              events = <<"getCAROOT", "mkdir", "loadCA", "uninstallPlatform", "uninstalled">>
        /\ (DefaultRun /\ Has("check")) =>
              /\ pc \in {"argsCheck", "done"}
              /\ pc = "done" <=> Has("usage")
        /\ (DefaultRun /\ pc = "done") =>
              events \in {<<"getCAROOT", "mkdir", "loadCA", "check", "usage">>,
                          <<"getCAROOT", "mkdir", "loadCA", "check", "warning", "usage">>}

C16_Witness ==
    /\ DefaultRun /\ Len(args) = 0 /\ pc = "done"
    /\ events = <<"getCAROOT", "mkdir", "loadCA", "check", "warning", "usage">>

\* C17: the override flag is true only in an install run whose platform
\* installer has been invoked and has returned; within a run it never goes
\* back to false; in a default run the outcome of check() (no warning, or the
\* warning) is the outcome of the real verification.
C17_OverrideFlag ==
    /\ [](ignoreCheckFailure =>
            (InstallRun /\ Has("installPlatform") /\ Has("installPlatform:returned")))
    /\ []((DefaultRun /\ Has("check")) =>
            (/\ ~ignoreCheckFailure
             /\ Has("warning") <=> ~trusted
             /\ sysPool = IF trusted THEN "has" ELSE "hasnot"))
    /\ [](UninstallRun => ~ignoreCheckFailure)
    /\ [][(ignoreCheckFailure /\ pc' # "main") => ignoreCheckFailure']_vars

C17_Witness ==
    /\ ignoreCheckFailure /\ InstallRun /\ pc = "done" /\ sysPool = "hasnot"
    /\ Has("installPlatform:returned") /\ Len(args) = 0

\* C18: in a run the platform installer, the platform uninstaller and the
\* issuer are each invoked at most once; installer and uninstaller are never
\* both invoked; the installer is invoked only with -install and the
\* uninstaller only with -uninstall, so neither without a mode flag.
C18_SingleShot ==
    /\ Count("installPlatform") <= 1
    /\ Count("uninstallPlatform") <= 1
    /\ Count("makeCert") <= 1
    /\ ~(Has("installPlatform") /\ Has("uninstallPlatform"))
    /\ Has("installPlatform") => InstallRun
    /\ Has("uninstallPlatform") => UninstallRun
    /\ DefaultRun => pc \notin {"install", "installPlatform", "installVerify", "uninstall"}

C18_Witness ==
    /\ InstallRun /\ pc = "done" /\ prevRun = "uninstall_ok"
    /\ Count("installPlatform") = 1 /\ Count("makeCert") = 1

\* the steps of check(), install(), uninstall() and identifier validation
ModeOrValidationStep ==
    pc \in {"install", "installPlatform", "installVerify", "uninstall", "passiveCheck",
            "argsCheck", "validate"}

\* C19: with the authority loaded, a step of check(), install(), uninstall()
\* or identifier validation leaves the mode flags, the identifier list, the
\* storage root and the authority (in memory and on disk) as they are.
C19_FrameOfRun ==
    [][(caCert /\ ModeOrValidationStep) =>
          UNCHANGED <<installFlag, uninstallFlag, args, CAROOT, caCert, caFiles>>]_vars

C19_Witness ==
    /\ caCert /\ ignoreCheckFailure /\ Len(args) = 2 /\ Count("validName") = 2
    /\ pc = "validate"

====
